---------------------------- MODULE Spec2Model ----------------------------
(***************************************************************************)
(* Model of the Dumpulse UDP client (src/client.py).                       *)
(*                                                                         *)
(* Representation choices                                                  *)
(*   - bytes objects are sequences of integers in 0..255;                  *)
(*   - an unsigned 32-bit value v is the pair <<v \div 65536, v % 65536>>  *)
(*     of its 16-bit halves (TLC integers are 32-bit signed, so v itself   *)
(*     does not fit);                                                      *)
(*   - times are integers in microseconds; the float product of line 77    *)
(*     is rounded to the nearest microsecond.  A socket timeout of None    *)
(*     (blocking mode) is the value None, which is no number of            *)
(*     microseconds;                                                       *)
(*   - the outcome of a call is a record: pending, a returned value, the   *)
(*     returned Python None, or a raised exception with its arguments.     *)
(***************************************************************************)
EXTENDS Integers, Sequences, FiniteSets, TLC

VARIABLES
    pc,              \* position of the caller / of get_health_report (line labels)
    op,              \* name of the function called last
    args,            \* its arguments (socket_object left out)
    ret,             \* its outcome
    channel,         \* behaviour of the peer and network behind socket_object
    sock_timeout,    \* socket_object's timeout setting
    sent,            \* packets handed to socket_object.send during this call, in order
    recvs,           \* number of socket_object.recv calls during this call
    delivered,       \* datagrams socket_object.recv returned during this call
    timeoutsSet,     \* values line 72 passed to settimeout during this call
    T0,              \* socket_object's timeout when the call started
    timeout,         \* get_health_report's local `timeout`
    retry_interval,  \* get_health_report's local `retry_interval`
    p,               \* get_health_report's local `p`
    python,          \* major version of the interpreter running the client
    faults,          \* number of socket.error raised by send / recv during this call
    net,             \* replies in flight to the client, each named by the query
                     \* it answers: the number of the attempt that sent the
                     \* query, 0 for a query of an earlier call
    origin,          \* the queries answered by the replies recv returned
                     \* during this call
    th               \* the frames of two get_health_report invocations that
                     \* run concurrently on socket_object (ConcSpec)

vars == <<pc, op, args, ret, channel, sock_timeout, sent, recvs, delivered,
          timeoutsSet, T0, timeout, retry_interval, p,
          python, faults, net, origin, th>>

\* what one step of a call leaves alone unless it says otherwise
quiet == <<python, faults, net, origin, th>>

io   == <<sock_timeout, sent, recvs, delivered, timeoutsSet>>

-----------------------------------------------------------------------------
(* Bounds of the model *)

\* longest health-report body (the bytes after the checksum field) decoded
MaxBody == 8

\* most replies the network holds in flight at a time (it drops the others)
MaxInFlight == 1

\* most timeouts the channel gives each of two concurrent invocations
MaxConcTimeouts == 1

-----------------------------------------------------------------------------
(* Outcomes of a call *)

NoBytes == << >>

Pending      == [st |-> "pending", isNone |-> FALSE, val |-> NoBytes]
Return(v)    == [st |-> "return",  isNone |-> FALSE, val |-> v]
ReturnNone   == [st |-> "return",  isNone |-> TRUE,  val |-> NoBytes]
Raise(e, a)  == [st |-> e,         isNone |-> FALSE, val |-> a]

Returned(r)  == r.st = "return"
Raised(r)    == r.st \notin {"pending", "return"}

-----------------------------------------------------------------------------
(* bytes, struct and zlib *)

Byte == 0..255

Min(a, b) == IF a < b THEN a ELSE b

\* Python's p[lo:hi] for 0 <= lo, 0 <= hi (indices clamped to len(p))
Slice(pk, lo, hi) == SubSeq(pk, Min(lo, Len(pk)) + 1, Min(hi, Len(pk)))

\* Python's p[lo:]
SliceFrom(pk, lo) == Slice(pk, lo, Len(pk))

\* mutant of pack_L: the bytes in little-endian order
pack_L_little_endian(x) ==
    << x[2] % 256, x[2] \div 256, x[1] % 256, x[1] \div 256 >>

\* struct.pack(">L", x) for an unsigned 32-bit x
pack_L(x) == << x[1] \div 256, x[1] % 256, x[2] \div 256, x[2] % 256 >>

\* struct.unpack(">L", q) for a 4-byte q
unpack_L(q) == << q[1] * 256 + q[2], q[3] * 256 + q[4] >>

\* mutant of unpack_HBB: the 16-bit field is read least significant byte
\* first
unpack_HBB_little_endian(q) == << q[2] * 256 + q[1], q[3], q[4] >>

\* struct.unpack(">HBB", q) for a 4-byte q
unpack_HBB(q) == << q[1] * 256 + q[2], q[3], q[4] >>

\* mutant of pack_B_ok: every number is packed (its low 8 bits), none refused
pack_B_truncates(x) == TRUE

\* struct.pack("BBBB", ...) raises struct.error for a number outside 0..255
pack_B_ok(x) == x \in Byte

\* the Adler-32 modulus (largest prime below 2^16), as in zlib
BASE == 65521

\* the loop over the bytes data[i..stop]: a is the sum of the bytes so far
\* plus one, b the sum of the values a has had, both modulo BASE (a and b
\* are never negative; the test has them evaluated at every step)
RECURSIVE adler_loop(_, _, _, _, _)
adler_loop(data, i, stop, a, b) ==
    IF i > stop \/ a < 0 \/ b < 0 THEN << b, a >>
    ELSE adler_loop(data, i + 1, stop, (a + data[i]) % BASE,
                    (b + ((a + data[i]) % BASE)) % BASE)

\* the loop run block by block, 64 bytes at a time (zlib too works through
\* the data in blocks; the result does not depend on the block length)
RECURSIVE adler_blocks(_, _, _)
adler_blocks(data, i, ba) ==
    IF i > Len(data) \/ ba[1] < 0 THEN ba
    ELSE adler_blocks(data, i + 64,
                      adler_loop(data, i, Min(i + 63, Len(data)), ba[2], ba[1]))

\* zlib.adler32(data): (b << 16) | a, an unsigned 32-bit value in Python 3
\* and the same 32 bits read as a signed integer in Python 2 (the value less
\* 2^32 when bit 31 is set: the high half less 2^16)
zlib_adler32(data) ==
    LET u == adler_blocks(data, 1, << 0, 1 >>) IN
    IF python = 2 /\ u[1] >= 32768 THEN << u[1] - 65536, u[2] >> ELSE u

\* mutant of mod_2_32: the library result is returned as it is
mod_2_32_missing(x) == x

\* x % 2**32 on the pair representation: the low half is already in
\* 0..65535, the high half is reduced into 0..65535
mod_2_32(x) == << x[1] % 65536, x[2] >>

adler32(data) == mod_2_32(zlib_adler32(data))

-----------------------------------------------------------------------------
(* The packet codec *)

\* b"AreyouOK"
query_packet == << 65, 114, 101, 121, 111, 117, 79, 75 >>

\* the tuple the loop yields for v
setting(pk, v) ==
    LET rec == unpack_HBB(Slice(SliceFrom(pk, 4 * (v + 1)), 0, 4))
    IN  << v, rec[1], rec[2], rec[3] >>

\* the tuples yielded for v in range(len(p)//4-1), in order; the range is
\* empty when len(p)//4-1 <= 0
_variable_settings(pk) ==
    LET n == (Len(pk) \div 4) - 1 IN
    IF n <= 0 THEN << >> ELSE [ i \in 1..n |-> setting(pk, i - 1) ]

\* mutant of parse_health_report: a buffer too short for the checksum field
\* is read as if padded with zero bytes
parse_health_report_padded(health_report_bytes) ==
    LET pk == health_report_bytes
        q  == Slice(pk \o << 0, 0, 0, 0 >>, 0, 4)
    IN  Return(<< _variable_settings(pk), adler32(SliceFrom(pk, 4)),
                  unpack_L(q) >>)

\* mutant of parse_health_report: the checksum covers the complete records
\* only, not the trailing bytes
parse_health_report_records_only(health_report_bytes) ==
    LET pk == health_report_bytes IN
    IF Len(Slice(pk, 0, 4)) # 4
    THEN Raise("struct.error", NoBytes)
    ELSE Return(<< _variable_settings(pk),
                   adler32(Slice(pk, 4, 4 * (Len(pk) \div 4))),
                   unpack_L(Slice(pk, 0, 4)) >>)

parse_health_report(health_report_bytes) ==
    LET pk == health_report_bytes IN
    IF Len(Slice(pk, 0, 4)) # 4
    THEN Raise("struct.error", NoBytes)
    ELSE Return(<< _variable_settings(pk), adler32(SliceFrom(pk, 4)),
                   unpack_L(Slice(pk, 0, 4)) >>)

\* mutant of variable_settings: ValueError carries received before expected
variable_settings_swapped(health_report_bytes) ==
    LET r == parse_health_report(health_report_bytes) IN
    IF Raised(r) THEN r
    ELSE IF r.val[2] # r.val[3]
         THEN Raise("ValueError", << health_report_bytes, r.val[3], r.val[2] >>)
         ELSE Return(r.val[1])

variable_settings(health_report_bytes) ==
    LET r == parse_health_report(health_report_bytes) IN
    IF Raised(r) THEN r
    ELSE IF r.val[2] # r.val[3]
         THEN Raise("ValueError", << health_report_bytes, r.val[2], r.val[3] >>)
         ELSE Return(r.val[1])

set_packet(variable, sender, value) ==
    IF ~(pack_B_ok(241) /\ pack_B_ok(variable) /\ pack_B_ok(sender) /\ pack_B_ok(value))
    THEN Raise("struct.error", NoBytes)
    ELSE LET payload == << 241, variable, sender, value >>
         IN  Return(pack_L(adler32(payload)) \o payload)

-----------------------------------------------------------------------------
(* The datagram channel behind socket_object *)

\* socket_object.gettimeout() is None for a socket in blocking mode
None == -1

SEC == 1000 * 1000

\* timeout settings the caller may have made before a call
Timeouts == { None, 0, 5 * SEC }

\* "silent":   the peer never responds, every recv times out;
\* "any":      a recv may deliver a datagram, time out, or fail;
\* "delaying": the peer answers a query with a health report or not at
\*             all, and the network may hold a reply back for any time
Channels == { "silent", "any", "delaying" }

report_body == << 1, 44, 76, 200 >>

\* the health report of the peer: it is the same bytes whichever query it
\* answers
health_report == pack_L(adler32(report_body)) \o report_body

\* what the network may deliver: an empty datagram, one too short for a
\* checksum field, a valid report, and a report with a wrong checksum
Datagrams ==
    { NoBytes,
      << 0, 1 >>,
      health_report,
      << 255, 255, 255, 255 >> \o report_body }

\* socket_object.send(...) returns, raises socket.timeout, or raises
\* another socket.error (for instance when the socket was closed)
SendOutcomes ==
    CASE channel = "silent"   -> { "ok", "timeout" }
      [] channel = "any"      -> { "ok", "timeout", "error" }
      [] channel = "delaying" -> { "ok" }

\* socket_object.recv(2048) raises socket.timeout, raises another
\* socket.error, or returns a datagram
RecvOutcomes ==
    CASE channel = "silent"   -> { "timeout" }
      [] channel = "any"      -> { "timeout", "error", "data" }
      [] channel = "delaying" -> { "timeout", "reply" }

\* the network after query k went out: on a delaying channel the peer's
\* reply to it may now be in flight
Answered(k) ==
    IF channel = "delaying" /\ Cardinality(net) < MaxInFlight
    THEN { net, net \cup { k } }
    ELSE { net }

\* the caller calls a function on socket_object: what the call has done on
\* the socket is recorded from here on
Begin(name, a, s) ==
    /\ pc = "idle"
    /\ op' = name
    /\ args' = a
    /\ T0' = sock_timeout
    /\ sent' = s
    /\ recvs' = 0
    /\ delivered' = << >>
    /\ timeoutsSet' = << >>

-----------------------------------------------------------------------------
(* get_health_report, lines 58-83 *)

initial_retry_interval == 250000

\* 1.4142, in units of 1/10000
retry_delay_factor == 14142

\* mutant of max_retry_interval: a ceiling of 32 s
max_retry_interval_32s == 32 * SEC

max_retry_interval == 16000000

\* mutant of Backoff: the interval doubles
Backoff_doubling(x) == 2 * x

\* retry_interval * retry_delay_factor, to the nearest microsecond
Backoff(x) ==
    (x \div 10000) * retry_delay_factor
    + ((x % 10000) * retry_delay_factor + 5000) \div 10000

\* lines 58-69: the locals are set and the socket's timeout is saved
get_health_report ==
    /\ Begin("get_health_report", << >>, << >>)
    /\ retry_interval' = initial_retry_interval
    /\ timeout' = sock_timeout
    /\ ret' = Pending
    /\ p' = NoBytes
    /\ pc' = "L72"
    /\ faults' = 0
    /\ origin' = << >>
    /\ UNCHANGED << channel, sock_timeout, python, net, th >>

\* line 72: socket_object.settimeout(retry_interval)
L72_settimeout ==
    /\ pc = "L72"
    /\ sock_timeout' = retry_interval
    /\ timeoutsSet' = Append(timeoutsSet, retry_interval)
    /\ pc' = "L74"
    /\ UNCHANGED << op, args, ret, channel, sent, recvs, delivered, T0,
                    timeout, retry_interval, p >>
    /\ UNCHANGED quiet

\* line 74: socket_object.send(query_packet)
L74_send ==
    /\ pc = "L74"
    /\ sent' = Append(sent, query_packet)
    /\ \E o \in SendOutcomes :
          \/ /\ o = "ok"
             /\ pc' = "L75"
             /\ net' \in Answered(Len(sent'))
             /\ UNCHANGED << ret, faults >>
          \/ /\ o = "timeout"
             /\ pc' = "L77"
             /\ UNCHANGED << ret, faults, net >>
          \/ /\ o = "error"
             /\ pc' = "L83"
             /\ ret' = Raise("socket.error", NoBytes)
             /\ faults' = faults + 1
             /\ net' = net
    /\ UNCHANGED << op, args, channel, sock_timeout, recvs, delivered,
                    timeoutsSet, T0, timeout, retry_interval, p >>
    /\ UNCHANGED << python, origin, th >>

\* mutant of L75_recv: any socket.error of recv is handled as a timeout
L75_recv_retry_all ==
    /\ pc = "L75"
    /\ recvs' = recvs + 1
    /\ \E o \in RecvOutcomes :
          \/ /\ o = "data"
             /\ \E d \in Datagrams :
                   /\ p' = d
                   /\ delivered' = Append(delivered, d)
             /\ pc' = "L81"
             /\ UNCHANGED << ret, faults, net, origin >>
          \/ /\ o = "reply"
             /\ \E k \in net :
                   /\ net' = net \ { k }
                   /\ origin' = Append(origin, k)
             /\ p' = health_report
             /\ delivered' = Append(delivered, health_report)
             /\ pc' = "L81"
             /\ UNCHANGED << ret, faults >>
          \/ /\ o = "timeout"
             /\ pc' = "L77"
             /\ UNCHANGED << ret, p, delivered, faults, net, origin >>
          \/ /\ o = "error"
             /\ pc' = "L77"
             /\ faults' = faults + 1
             /\ UNCHANGED << ret, p, delivered, net, origin >>
    /\ UNCHANGED << op, args, channel, sock_timeout, sent, timeoutsSet, T0,
                    timeout, retry_interval >>
    /\ UNCHANGED << python, th >>

\* line 75: p = socket_object.recv(2048)
L75_recv ==
    /\ pc = "L75"
    /\ recvs' = recvs + 1
    /\ \E o \in RecvOutcomes :
          \/ /\ o = "data"
             /\ \E d \in Datagrams :
                   /\ p' = d
                   /\ delivered' = Append(delivered, d)
             /\ pc' = "L81"
             /\ UNCHANGED << ret, faults, net, origin >>
          \/ /\ o = "reply"
             /\ \E k \in net :
                   /\ net' = net \ { k }
                   /\ origin' = Append(origin, k)
             /\ p' = health_report
             /\ delivered' = Append(delivered, health_report)
             /\ pc' = "L81"
             /\ UNCHANGED << ret, faults >>
          \/ /\ o = "timeout"
             /\ pc' = "L77"
             /\ UNCHANGED << ret, p, delivered, faults, net, origin >>
          \/ /\ o = "error"
             /\ pc' = "L83"
             /\ ret' = Raise("socket.error", NoBytes)
             /\ faults' = faults + 1
             /\ UNCHANGED << p, delivered, net, origin >>
    /\ UNCHANGED << op, args, channel, sock_timeout, sent, timeoutsSet, T0,
                    timeout, retry_interval >>
    /\ UNCHANGED << python, th >>

\* mutant of L77_except: giving up raises the timeout instead of returning None
L77_except_reraise ==
    /\ pc = "L77"
    /\ retry_interval' = Backoff(retry_interval)
    /\ IF retry_interval' > max_retry_interval
       THEN pc' = "L83" /\ ret' = Raise("socket.timeout", NoBytes)
       ELSE pc' = "L72" /\ ret' = ret
    /\ UNCHANGED << op, args, channel, io, T0, timeout, p >>
    /\ UNCHANGED quiet

\* mutant of L77_except: after a timeout recv is called again, without a new
\* settimeout and send
L77_except_recv_again ==
    /\ pc = "L77"
    /\ retry_interval' = Backoff(retry_interval)
    /\ IF retry_interval' > max_retry_interval
       THEN pc' = "L83" /\ ret' = ReturnNone
       ELSE pc' = "L75" /\ ret' = ret
    /\ UNCHANGED << op, args, channel, io, T0, timeout, p >>
    /\ UNCHANGED quiet

\* mutant of L77_except: the interval is compared with the ceiling before it
\* is multiplied
L77_except_late_check ==
    /\ pc = "L77"
    /\ retry_interval' = Backoff(retry_interval)
    /\ IF retry_interval > max_retry_interval
       THEN pc' = "L83" /\ ret' = ReturnNone
       ELSE pc' = "L72" /\ ret' = ret
    /\ UNCHANGED << op, args, channel, io, T0, timeout, p >>
    /\ UNCHANGED quiet

\* lines 76-79: except socket.timeout
L77_except ==
    /\ pc = "L77"
    /\ retry_interval' = Backoff(retry_interval)
    /\ IF retry_interval' > max_retry_interval
       THEN pc' = "L83" /\ ret' = ReturnNone
       ELSE pc' = "L72" /\ ret' = ret
    /\ UNCHANGED << op, args, channel, io, T0, timeout, p >>
    /\ UNCHANGED quiet

\* mutant of L81_return: a datagram too short for a checksum field is
\* dropped and the query retried
L81_return_validated ==
    /\ pc = "L81"
    /\ IF Len(p) < 4
       THEN pc' = "L77" /\ ret' = ret
       ELSE pc' = "L83" /\ ret' = Return(p)
    /\ UNCHANGED << op, args, channel, io, T0, timeout, retry_interval, p >>
    /\ UNCHANGED quiet

\* mutant of L81_return: a reply to another query than the last one sent is
\* discarded and recv is called again
L81_return_matching ==
    /\ pc = "L81"
    /\ IF origin # << >> /\ origin[Len(origin)] # Len(sent)
       THEN pc' = "L75" /\ ret' = ret
       ELSE pc' = "L83" /\ ret' = Return(p)
    /\ UNCHANGED << op, args, channel, io, T0, timeout, retry_interval, p >>
    /\ UNCHANGED quiet

\* lines 80-81: else: return p
L81_return ==
    /\ pc = "L81"
    /\ ret' = Return(p)
    /\ pc' = "L83"
    /\ UNCHANGED << op, args, channel, io, T0, timeout, retry_interval, p >>
    /\ UNCHANGED quiet

\* mutant of L83_finally: the timeout is restored before a return only, not
\* when an exception leaves the function
L83_restore_on_return_only ==
    /\ pc = "L83"
    /\ sock_timeout' = IF Raised(ret) THEN sock_timeout ELSE timeout
    /\ pc' = "done"
    /\ UNCHANGED << op, args, ret, channel, sent, recvs, delivered,
                    timeoutsSet, T0, timeout, retry_interval, p >>
    /\ UNCHANGED quiet

\* lines 82-83: finally: socket_object.settimeout(timeout); the pending
\* return or exception then leaves the function
L83_finally ==
    /\ pc = "L83"
    /\ sock_timeout' = timeout
    /\ pc' = "done"
    /\ UNCHANGED << op, args, ret, channel, sent, recvs, delivered,
                    timeoutsSet, T0, timeout, retry_interval, p >>
    /\ UNCHANGED quiet

-----------------------------------------------------------------------------
(* set_variable, lines 111-113 *)

\* numbers a caller may pass for variable, sender and value
ArgVals == { -1, 0, 5, 76, 200, 255, 256 }

\* mutant of set_variable: the packet is sent a second time
set_variable_resend ==
    /\ pc = "idle"
    /\ \E variable \in ArgVals, sender \in ArgVals, value \in ArgVals :
        LET pkt == set_packet(variable, sender, value) IN
        /\ Begin("set_variable", << variable, sender, value >>,
                 IF Raised(pkt) THEN << >> ELSE << pkt.val, pkt.val >>)
        /\ ret' = IF Raised(pkt) THEN pkt ELSE ReturnNone
        /\ pc' = "done"
        /\ faults' = 0
        /\ origin' = << >>
        /\ UNCHANGED << channel, sock_timeout, timeout, retry_interval, p >>
        /\ UNCHANGED << python, net, th >>

\* set_packet(...) is evaluated first; when it raises, send is not called
set_variable ==
    /\ pc = "idle"
    /\ \E variable \in ArgVals, sender \in ArgVals, value \in ArgVals :
        LET pkt == set_packet(variable, sender, value) IN
        /\ Begin("set_variable", << variable, sender, value >>,
                 IF Raised(pkt) THEN << >> ELSE << pkt.val >>)
        /\ IF Raised(pkt)
           THEN ret' = pkt /\ faults' = 0
           ELSE \E o \in SendOutcomes :
                   \/ o = "ok"      /\ ret' = ReturnNone /\ faults' = 0
                   \/ o = "timeout" /\ ret' = Raise("socket.timeout", NoBytes)
                                    /\ faults' = 0
                   \/ o = "error"   /\ ret' = Raise("socket.error", NoBytes)
                                    /\ faults' = 1
        /\ pc' = "done"
        /\ origin' = << >>
        /\ UNCHANGED << channel, sock_timeout, timeout, retry_interval, p >>
        /\ UNCHANGED << python, net, th >>

-----------------------------------------------------------------------------
(* The client over one socket_object *)

\* the two flows of control of ConcSpec
Threads == { 1, 2 }

\* the frame of an invocation that has not started: its position, its
\* locals timeout, retry_interval and p, its outcome, the timeouts the
\* channel has given it, its place in the order of exits (0: not yet), and
\* whether the other invocation has been under way at the same time
IdleFrame ==
    [ pc |-> "idle", timeout |-> None, retry_interval |-> 0, p |-> NoBytes,
      ret |-> Pending, timeouts |-> 0, exit |-> 0, overlapped |-> FALSE ]

Init ==
    /\ pc = "idle"
    /\ op = "none"
    /\ args = << >>
    /\ ret = Pending
    /\ channel \in Channels
    /\ sock_timeout \in Timeouts
    /\ sent = << >>
    /\ recvs = 0
    /\ delivered = << >>
    /\ timeoutsSet = << >>
    /\ T0 = sock_timeout
    /\ timeout = None
    /\ retry_interval = 0
    /\ p = NoBytes
    /\ python \in { 2, 3 }
    /\ faults = 0
    /\ net = { }
    /\ origin = << >>
    /\ th = [ t \in Threads |-> IdleFrame ]

\* the call has returned or raised; the caller goes on with the same
\* socket_object, the frame of the call is gone
Caller ==
    /\ pc = "done"
    /\ pc' = "idle"
    /\ op' = "none"
    /\ args' = << >>
    /\ ret' = Pending
    /\ sent' = << >>
    /\ recvs' = 0
    /\ delivered' = << >>
    /\ timeoutsSet' = << >>
    /\ T0' = sock_timeout
    /\ timeout' = None
    /\ retry_interval' = 0
    /\ p' = NoBytes
    /\ faults' = 0
    /\ origin' = << >>
    /\ net' = IF net = { } THEN { } ELSE { 0 }
    /\ UNCHANGED << channel, sock_timeout, python, th >>

Next ==
    \/ get_health_report
    \/ L72_settimeout
    \/ L74_send
    \/ L75_recv
    \/ L77_except
    \/ L81_return
    \/ L83_finally
    \/ set_variable
    \/ Caller

Spec == Init /\ [][Next]_vars

\* a call that has started keeps running: send returns or raises, recv
\* returns or raises within the timeout line 72 has set
InCall == L72_settimeout \/ L74_send \/ L75_recv \/ L77_except
             \/ L81_return \/ L83_finally

FairSpec == Spec /\ WF_vars(InCall)

-----------------------------------------------------------------------------
(* The packet codec applied to inputs drawn from bounded sets *)

\* byte values the decoded buffers are made of
SampleBytes == { 0, 7, 255 }

\* checksum fields put in front of a body: the right one, the right one
\* with its lowest bit flipped, and all ones
ChecksumFields(body) ==
    LET c == adler32(body) IN
    { pack_L(c),
      pack_L(<< c[1], IF c[2] % 2 = 0 THEN c[2] + 1 ELSE c[2] - 1 >>),
      << 255, 255, 255, 255 >> }

\* buffers made from a body: the body behind each checksum field, and the
\* body alone when it is too short to hold a checksum field
BuffersOf(body) ==
    { f \o body : f \in ChecksumFields(body) }
    \cup (IF Len(body) < 4 THEN { body } ELSE { })

\* the most bytes recv(2048) on line 75 returns
recv_bufsize == 2048

\* lengths of the long bodies decoded: 16 bytes of 255 have a checksum with
\* bit 31 set; 1024, 1028 and 2044 bytes are 256, 257 and 511 records, the
\* last filling a datagram of recv_bufsize bytes
LongLengths == { 16, 1024, 1028, recv_bufsize - 4 }

\* long bodies: one byte value repeated
LongBodies == { [ i \in 1..n |-> c ] : n \in LongLengths, c \in SampleBytes }

\* packets set_packet returns for arguments it accepts
SetPackets ==
    { set_packet(variable, sender, value).val :
        variable \in ArgVals \cap Byte, sender \in ArgVals \cap Byte,
        value \in ArgVals \cap Byte }

\* a call of a codec function from the caller: the outcome is in ret
Apply(name, a, r) ==
    /\ pc = "idle"
    /\ pc' = "done"
    /\ op' = name
    /\ args' = a
    /\ ret' = r
    /\ UNCHANGED << channel, io, T0, timeout, retry_interval, p >>
    /\ UNCHANGED quiet

call_set_packet ==
    /\ pc = "idle"
    /\ \E variable \in ArgVals, sender \in ArgVals, value \in ArgVals :
        Apply("set_packet", << variable, sender, value >>,
              set_packet(variable, sender, value))

call_parse_health_report ==
    /\ pc = "idle"
    /\ \/ \E k \in 0..MaxBody :
             \E body \in [1..k -> SampleBytes] :
                \E b \in BuffersOf(body) :
                   Apply("parse_health_report", << b >>, parse_health_report(b))
       \/ \E body \in LongBodies :
             \E b \in BuffersOf(body) :
                Apply("parse_health_report", << b >>, parse_health_report(b))

call_variable_settings ==
    /\ pc = "idle"
    /\ \/ \E k \in 0..MaxBody :
             \E body \in [1..k -> SampleBytes] :
                \E b \in BuffersOf(body) :
                   Apply("variable_settings", << b >>, variable_settings(b))
       \/ \E body \in LongBodies :
             \E b \in BuffersOf(body) :
                Apply("variable_settings", << b >>, variable_settings(b))
       \/ \E b \in SetPackets :
             Apply("variable_settings", << b >>, variable_settings(b))

call_adler32 ==
    /\ pc = "idle"
    /\ \/ \E k \in 0..MaxBody :
             \E data \in [1..k -> SampleBytes] :
                Apply("adler32", << data >>, Return(adler32(data)))
       \/ \E data \in LongBodies :
             Apply("adler32", << data >>, Return(adler32(data)))

CodecInit == Init /\ channel = "any" /\ sock_timeout = None

CodecNext ==
    \/ call_set_packet
    \/ call_parse_health_report
    \/ call_variable_settings
    \/ call_adler32
    \/ Caller

CodecSpec == CodecInit /\ [][CodecNext]_vars

-----------------------------------------------------------------------------
(* Reference definitions used by the properties *)

\* q[lo] + ... + q[hi]
RECURSIVE SumRange(_, _, _)
SumRange(q, lo, hi) ==
    IF lo > hi THEN 0
    ELSE IF lo = hi THEN q[lo]
    ELSE LET mid == (lo + hi) \div 2
         IN  SumRange(q, lo, mid) + SumRange(q, mid + 1, hi)

SumSeq(q) == SumRange(q, 1, Len(q))

\* Adler-32 by its closed form: a = 1 + d1 + ... + dn and
\* b = n + n*d1 + (n-1)*d2 + ... + 1*dn, both modulo 65521
Adler32Ref(d) ==
    LET n == Len(d) IN
    << (n + SumSeq([i \in 1..n |-> (n - i + 1) * d[i]])) % 65521,
       (1 + SumSeq(d)) % 65521 >>

\* the four bytes of an unsigned 32-bit value, most significant first
BigEndian(x) == << x[1] \div 256, x[1] % 256, x[2] \div 256, x[2] % 256 >>

\* 0.25 * 1.4142^(k-1) seconds for k = 1..13 as CPython's floats give it,
\* to the nearest microsecond
Schedule ==
    << 250000, 353550, 499990, 707086, 999962, 1414146, 1999885, 2828237,
       3999693, 5656366, 7999233, 11312515, 15998159 >>

Abs(x) == IF x < 0 THEN 0 - x ELSE x

InByte(a) == \A i \in 1..Len(a) : a[i] \in 0..255

Exited(name) == pc = "done" /\ op = name

-----------------------------------------------------------------------------
(* Properties of get_health_report and set_variable (Spec, FairSpec) *)

\* C1: whenever get_health_report has exited -- with a received datagram,
\* with None after giving up, or with the socket.error a send or recv
\* raised -- the socket's timeout is what it was when the call started.
C1_TimeoutRestored ==
    Exited("get_health_report") => sock_timeout = T0

\* the exit by a fault of recv, after a retry, on a blocking socket
C1_Witness ==
    /\ Exited("get_health_report")
    /\ ret.st = "socket.error"
    /\ recvs = 2
    /\ T0 = None
    /\ sock_timeout = None

\* C2: on a channel whose every recv times out, a started
\* get_health_report ends, and ends by returning None.
C2_SilentChannelGivesUp ==
    (channel = "silent" /\ pc = "L72")
        ~> (Exited("get_health_report") /\ ret = ReturnNone)

C2_Witness ==
    /\ channel = "silent"
    /\ Exited("get_health_report")
    /\ ret = ReturnNone
    /\ recvs > 0

\* C3: on a channel that never responds the receive timeouts
\* get_health_report sets add up to less than 60 seconds.
C3_TotalUnderAMinute ==
    (channel = "silent" /\ op = "get_health_report")
        => SumSeq(timeoutsSet) < 60 * SEC

\* the give-up after 13 attempts that all reached recv: about 54 seconds
C3_Witness ==
    /\ channel = "silent"
    /\ Exited("get_health_report")
    /\ recvs = 13
    /\ SumSeq(timeoutsSet) > 54 * SEC

\* C4: a call that returns a datagram on its n-th attempt returns the
\* datagram recv delivered, has sent the query packet n times, and has set
\* the timeout of attempt k to 250 ms * 1.4142^(k-1) (within 10 us).
C4_ResponseOnNthAttempt ==
    (Exited("get_health_report") /\ Returned(ret) /\ ~ret.isNone) =>
        LET n == Len(timeoutsSet) IN
        /\ delivered = << ret.val >>
        /\ sent = [k \in 1..n |-> query_packet]
        /\ n <= Len(Schedule)
        /\ \A k \in 1..n : Abs(timeoutsSet[k] - Schedule[k]) <= 10

\* the response arrives on the last attempt before give-up
C4_Witness ==
    /\ Exited("get_health_report")
    /\ Returned(ret)
    /\ ~ret.isNone
    /\ Len(sent) = 13
    /\ timeoutsSet[3] = 499990

\* C5: once recv has delivered a datagram, get_health_report sends and
\* receives nothing more, and what it returns is that datagram, whatever
\* the datagram holds.
C5_ReturnsReceivedBytes ==
    [][ (op = "get_health_report" /\ delivered # << >> /\ pc # "done") =>
            /\ sent' = sent
            /\ recvs' = recvs
            /\ delivered' = delivered
            /\ pc' = "done" => ret' = Return(delivered[1]) ]_vars

\* an empty datagram is returned as the response, not as None
C5_Witness ==
    /\ Exited("get_health_report")
    /\ delivered = << NoBytes >>
    /\ ret = Return(NoBytes)

\* C6: set_variable with arguments in 0..255 calls send once, with the
\* 8-byte set-request packet, calls recv never, and leaves the socket's
\* timeout alone.
C6_FireAndForget ==
    (Exited("set_variable") /\ InByte(args)) =>
        /\ Len(sent) = 1
        /\ Len(sent[1]) = 8
        /\ SubSeq(sent[1], 5, 8) = << 241 >> \o args
        /\ SubSeq(sent[1], 1, 4) = BigEndian(Adler32Ref(<< 241 >> \o args))
        /\ recvs = 0
        /\ delivered = << >>
        /\ timeoutsSet = << >>
        /\ sock_timeout = T0

C6_Witness ==
    /\ Exited("set_variable")
    /\ args = << 5, 76, 200 >>
    /\ ret = ReturnNone
    /\ Len(sent) = 1

\* C8: set_variable with a variable, sender or value outside 0..255
\* raises before any I/O: send is not called, the socket is as it was.
C8_RangeErrorBeforeIO ==
    (Exited("set_variable") /\ ~InByte(args)) =>
        /\ ret.st = "struct.error"
        /\ sent = << >>
        /\ recvs = 0
        /\ timeoutsSet = << >>
        /\ sock_timeout = T0

C8_Witness ==
    /\ Exited("set_variable")
    /\ args = << 5, 76, 256 >>
    /\ ret.st = "struct.error"

-----------------------------------------------------------------------------
(* Properties of the packet codec (CodecSpec) *)

\* C7: for variable, sender and value in 0..255 set_packet returns 8 bytes:
\* bytes 4..7 are (0xF1, variable, sender, value), bytes 0..3 are the
\* big-endian Adler-32 of those four bytes, so the checksum recomputed
\* over bytes 4..7 equals the one read from bytes 0..3.
C7_SetPacketLayout ==
    (Exited("set_packet") /\ InByte(args)) =>
        /\ Returned(ret)
        /\ Len(ret.val) = 8
        /\ SubSeq(ret.val, 5, 8) = << 241, args[1], args[2], args[3] >>
        /\ SubSeq(ret.val, 1, 4) = BigEndian(Adler32Ref(SubSeq(ret.val, 5, 8)))
        /\ unpack_L(SubSeq(ret.val, 1, 4)) = adler32(SubSeq(ret.val, 5, 8))
        /\ args = << 5, 76, 200 >> => SubSeq(ret.val, 1, 4) = << 5, 55, 2, 11 >>

C7_Witness ==
    /\ Exited("set_packet")
    /\ args = << 5, 76, 200 >>
    /\ ret = Return(<< 5, 55, 2, 11, 241, 5, 76, 200 >>)

\* C9: for a buffer of at least 4 bytes with body b (the bytes after the
\* first four) parse_health_report returns, whatever the checksum field
\* holds: floor(len(b)/4) settings, the k-th being (k, big-endian 16-bit
\* timestamp, sender, value) of the k-th 4-byte record; the checksum of all
\* of b; and the checksum field read big-endian.  The two are equal exactly
\* when the field holds the checksum of b.
C9_LenientDecode ==
    (Exited("parse_health_report") /\ Len(args[1]) >= 4) =>
        LET pk == args[1]
            b  == SubSeq(pk, 5, Len(pk))
            n  == Len(b) \div 4
        IN  /\ Returned(ret)
            /\ Len(ret.val[1]) = n
            /\ \A k \in 0..(n - 1) :
                  ret.val[1][k + 1] = << k, b[4 * k + 1] * 256 + b[4 * k + 2],
                                         b[4 * k + 3], b[4 * k + 4] >>
            /\ ret.val[2] = Adler32Ref(b)
            /\ ret.val[3] = << pk[1] * 256 + pk[2], pk[3] * 256 + pk[4] >>
            /\ (ret.val[2] = ret.val[3])
                  <=> (SubSeq(pk, 1, 4) = BigEndian(Adler32Ref(b)))

\* a body of 6 bytes behind its right checksum: one setting, 2 bytes ignored
C9_Witness ==
    /\ Exited("parse_health_report")
    /\ Len(args[1]) = 10
    /\ Returned(ret)
    /\ ret.val[1] = << << 0, 7 * 256 + 255, 0, 7 >> >>
    /\ ret.val[2] = ret.val[3]

\* C10: for a buffer of at least 4 bytes variable_settings raises
\* ValueError(bytes, expected, received) if and only if the checksum of
\* the body differs from the checksum field, and otherwise returns the
\* settings list parse_health_report returns for the buffer.
C10_StrictDecode ==
    (Exited("variable_settings") /\ Len(args[1]) >= 4) =>
        LET pk       == args[1]
            expected == Adler32Ref(SubSeq(pk, 5, Len(pk)))
            received == << pk[1] * 256 + pk[2], pk[3] * 256 + pk[4] >>
        IN  IF expected # received
            THEN /\ ret.st = "ValueError"
                 /\ ret.val = << pk, expected, received >>
            ELSE /\ Returned(ret)
                 /\ ret.val = parse_health_report(pk).val[1]

\* a corrupted checksum field in front of two records
C10_Witness ==
    /\ Exited("variable_settings")
    /\ Len(args[1]) = 12
    /\ ret.st = "ValueError"
    /\ ret.val[2] # ret.val[3]
    /\ ret.val[1] = args[1]

InRange(settings) ==
    \A i \in 1..Len(settings) :
        /\ settings[i][1] \in 0..255
        /\ settings[i][2] \in 0..65535
        /\ settings[i][3] \in 0..255
        /\ settings[i][4] \in 0..255

\* C12: every setting decoded from a buffer of at most 2048 bytes has a
\* variable index in 0..255, a timestamp in 0..65535 and a sender id and a
\* value in 0..255.  The index is the position of the record in the buffer,
\* so this fails for a buffer of more than 256 records.
C12_SettingsInRange ==
    /\ (Exited("variable_settings") /\ Returned(ret)
            /\ Len(args[1]) <= recv_bufsize)
       => InRange(ret.val)
    /\ (Exited("parse_health_report") /\ Returned(ret)
            /\ Len(args[1]) <= recv_bufsize)
       => InRange(ret.val[1])

\* what does hold of the decoded settings: the index of the i-th setting is
\* i - 1, below len(p)//4 - 1, and the other three fields are in range
C12_IndexIsPosition ==
    (Exited("variable_settings") /\ Returned(ret)) =>
        /\ Len(ret.val) = (IF Len(args[1]) < 8 THEN 0
                           ELSE (Len(args[1]) \div 4) - 1)
        /\ \A i \in 1..Len(ret.val) :
              /\ ret.val[i][1] = i - 1
              /\ ret.val[i][2] \in 0..65535
              /\ ret.val[i][3] \in 0..255
              /\ ret.val[i][4] \in 0..255

\* a valid report of 257 records is decoded and its last index is 256
C12_Witness ==
    /\ Exited("variable_settings")
    /\ Returned(ret)
    /\ Len(args[1]) = 1032
    /\ Len(ret.val) = 257
    /\ ret.val[257][1] = 256

\* C13: adler32 returns, for every byte sequence including the empty one, a
\* value in [0, 2^32) that depends on the bytes only (it is the Adler-32 sum
\* of the bytes whichever the Python version), also when zlib.adler32 gives
\* a negative number.
C13_ChecksumUnsigned ==
    Exited("adler32") =>
        /\ Returned(ret)
        /\ ret.val[1] \in 0..65535
        /\ ret.val[2] \in 0..65535
        /\ ret.val = Adler32Ref(args[1])

\* under Python 2 the library result for sixteen bytes of 255 is negative
C13_Witness ==
    /\ Exited("adler32")
    /\ python = 2
    /\ Len(args[1]) = 16
    /\ zlib_adler32(args[1])[1] < 0
    /\ ret.val[1] >= 32768

-----------------------------------------------------------------------------
(* The state machine of one run of get_health_report (Spec) *)

\* the state of the run: Sending from the start of a loop pass until send has
\* returned, AwaitingResponse during recv, TimedOut while lines 76-79 handle
\* a socket.timeout, Retrying when they have left the interval within the
\* ceiling, and the three ways the run ends
Phase ==
    CASE op # "get_health_report"                  -> "none"
      [] pc = "L72" /\ timeoutsSet = << >>          -> "Sending"
      [] pc = "L72" /\ timeoutsSet # << >>          -> "Retrying"
      [] pc = "L74"                                 -> "Sending"
      [] pc = "L75"                                 -> "AwaitingResponse"
      [] pc = "L77"                                 -> "TimedOut"
      [] pc = "L81"                                 -> "Succeeded"
      [] pc \in { "L83", "done" } /\ Raised(ret)    -> "Faulted"
      [] pc \in { "L83", "done" } /\ ret.isNone     -> "GaveUp"
      [] OTHER                                      -> "Succeeded"

NoIO == sent' = sent /\ recvs' = recvs /\ delivered' = delivered

\* the steps a run may take
Transition ==
    LET a == Phase
        b == Phase'
    IN
    \/ a = "Sending" /\ pc = "L72" /\ b = "Sending" /\ pc' = "L74" /\ NoIO
          /\ sock_timeout' = retry_interval
    \/ a = "Sending" /\ pc = "L74" /\ b \in { "AwaitingResponse", "TimedOut", "Faulted" }
          /\ sock_timeout = retry_interval
          /\ sent' = Append(sent, query_packet)
          /\ recvs' = recvs /\ delivered' = delivered
    \/ a = "AwaitingResponse" /\ b = "Succeeded"
          /\ sock_timeout = retry_interval
          /\ sent # << >> /\ sent[Len(sent)] = query_packet
          /\ sent' = sent /\ recvs' = recvs + 1
          /\ Len(delivered') = Len(delivered) + 1
    \/ a = "AwaitingResponse" /\ b \in { "TimedOut", "Faulted" }
          /\ sock_timeout = retry_interval
          /\ sent # << >> /\ sent[Len(sent)] = query_packet
          /\ sent' = sent /\ recvs' = recvs + 1 /\ delivered' = delivered
    \/ a = "TimedOut" /\ b = "Retrying" /\ NoIO
          /\ retry_interval' = Backoff(retry_interval)
          /\ retry_interval' <= max_retry_interval
    \/ a = "TimedOut" /\ b = "GaveUp" /\ NoIO
          /\ Backoff(retry_interval) > max_retry_interval
    \/ a = "Retrying" /\ b = "Sending" /\ pc' = "L74" /\ NoIO
          /\ sock_timeout' = retry_interval
    \/ a \in { "Succeeded", "GaveUp", "Faulted" } /\ b = a /\ NoIO

-----------------------------------------------------------------------------
(* The retry count (Spec) *)

\* C15: on a channel that never responds get_health_report starts with a
\* timeout of 250 ms, does 4 more retries before the interval gets to one
\* second and gives up after 9 more retries: it has sent the query
\* 1 + 4 + 9 = 14 times when it returns None.
C15_FourteenSends ==
    (channel = "silent" /\ Exited("get_health_report")) =>
        /\ ret = ReturnNone
        /\ timeoutsSet[1] = 250 * 1000
        /\ Len(sent) = 1 + 4 + 9

\* what the loop does on a channel that never responds: 1 + 4 + 8 = 13
\* sends, the fifth with the last interval below one second, the thirteenth
\* with the last interval within the ceiling
C15_ThirteenSends ==
    (channel = "silent" /\ Exited("get_health_report")) =>
        /\ ret = ReturnNone
        /\ Len(sent) = 13
        /\ Len(timeoutsSet) = 13
        /\ timeoutsSet[5] < SEC
        /\ timeoutsSet[6] >= SEC
        /\ timeoutsSet[13] <= max_retry_interval
        /\ Backoff(timeoutsSet[13]) > max_retry_interval

-----------------------------------------------------------------------------
(* Faults other than a timeout (Spec) *)

\* C16: when send or recv raises a fault that is no timeout, the run of
\* get_health_report ends with that fault at its first occurrence: nothing
\* more is sent or received and the outcome is the raised fault, not None;
\* and a run raises nothing but such a fault, timeouts being handled inside.
C16_FaultsPropagate ==
    [][ (op' = "get_health_report") =>
          /\ (faults' > 0) =>
                /\ faults' = 1
                /\ pc' \in { "L83", "done" }
                /\ ret' = Raise("socket.error", NoBytes)
                /\ ret' # ReturnNone
          /\ (faults > 0) => (sent' = sent /\ recvs' = recvs)
          /\ Raised(ret') => faults' = 1 ]_vars

\* recv has failed on the second attempt, after one timeout
C16_Witness ==
    /\ Exited("get_health_report")
    /\ faults = 1
    /\ ret.st = "socket.error"
    /\ Len(sent) = 2
    /\ recvs = 2
    /\ sock_timeout = T0

-----------------------------------------------------------------------------
(* The timeouts applied (Spec) *)

\* C17: every receive timeout get_health_report has set on the channel in
\* its loop lies between the initial 250 ms and the ceiling of 16 s
\* inclusive, and while send or recv is under way the channel's timeout is
\* the current retry interval, within these limits.
C17_TimeoutWithinCeiling ==
    (op = "get_health_report") =>
        /\ \A k \in 1..Len(timeoutsSet) :
              /\ timeoutsSet[k] >= 250 * 1000
              /\ timeoutsSet[k] <= 16 * SEC
        /\ (pc \in { "L74", "L75" }) =>
              /\ sock_timeout = retry_interval
              /\ sock_timeout >= 250 * 1000
              /\ sock_timeout <= 16 * SEC

\* recv waits with the longest interval of the schedule, the thirteenth
C17_Witness ==
    /\ op = "get_health_report"
    /\ pc = "L75"
    /\ Len(timeoutsSet) = 13
    /\ sock_timeout > 15 * SEC
    /\ Backoff(sock_timeout) > 16 * SEC

-----------------------------------------------------------------------------
(* Set requests read as health reports (CodecSpec) *)

\* C18: the packet set_packet returns for a variable, a sender and a value
\* in 0..255 is accepted by variable_settings, which returns exactly one
\* setting for it: (0, 0xF100 + variable, sender, value).
C18_SetPacketDecodes ==
    (Exited("variable_settings") /\ Len(args[1]) = 8) =>
        \A variable \in ArgVals \cap Byte, sender \in ArgVals \cap Byte,
           value \in ArgVals \cap Byte :
            (args[1] = set_packet(variable, sender, value).val) =>
                ret = Return(<< << 0, 241 * 256 + variable, sender, value >> >>)

\* the packet of set_packet(5, 76, 200) decoded
C18_Witness ==
    /\ Exited("variable_settings")
    /\ args[1] = set_packet(5, 76, 200).val
    /\ args[1] = << 5, 55, 2, 11, 241, 5, 76, 200 >>
    /\ ret = Return(<< << 0, 61701, 76, 200 >> >>)

-----------------------------------------------------------------------------
(* Delayed replies (Spec) *)

\* C19: on a channel that can delay datagrams the first datagram a run of
\* get_health_report receives ends it and is what it returns, whichever
\* query the peer sent it for: a reply to an earlier attempt, or to an
\* earlier call (query 0), is returned by the attempt during which it
\* arrives, and no datagram is received and then dropped.
C19_StaleReplyReturned ==
    (channel = "delaying" /\ op = "get_health_report" /\ delivered # << >>) =>
        /\ Len(delivered) = 1
        /\ Len(origin) = 1
        /\ origin[1] <= Len(sent)
        /\ recvs <= Len(sent)
        /\ pc \in { "L81", "L83", "done" }
        /\ p = delivered[1]
        /\ (pc \in { "L83", "done" }) => ret = Return(delivered[1])

\* the reply to the first query has arrived during the second attempt and
\* has been returned
C19_Witness ==
    /\ channel = "delaying"
    /\ Exited("get_health_report")
    /\ origin = << 1 >>
    /\ Len(sent) = 2
    /\ recvs = 2
    /\ ret = Return(health_report)

\* the reply to a query of an earlier call has been returned
C19_EarlierCall ==
    /\ channel = "delaying"
    /\ Exited("get_health_report")
    /\ origin = << 0 >>
    /\ ret = Return(health_report)

-----------------------------------------------------------------------------
(* Two invocations of get_health_report on one socket_object (ConcSpec) *)

\* what a step of an invocation in a flow of its own leaves alone: the frame
\* and the record of the single caller of Spec
single == << pc, op, args, ret, delivered, timeoutsSet, T0, timeout,
             retry_interval, p, channel, python, faults, net, origin >>

InFlow(f) == f.pc \notin { "idle", "done" }

Other(t) == CHOOSE u \in Threads : u # t

\* lines 58-69 in flow t: the frame saves the timeout the socket has now
T_get_health_report(t) ==
    /\ th[t].pc = "idle"
    /\ th' = [ u \in Threads |->
                 IF u = t
                 THEN [ th[t] EXCEPT !.pc = "L72",
                                     !.retry_interval = initial_retry_interval,
                                     !.timeout = sock_timeout,
                                     !.overlapped = InFlow(th[Other(t)]) ]
                 ELSE [ th[u] EXCEPT !.overlapped = @ \/ InFlow(th[u]) ] ]
    /\ UNCHANGED << sock_timeout, sent, recvs >>
    /\ UNCHANGED single

\* line 72 in flow t
T_L72_settimeout(t) ==
    /\ th[t].pc = "L72"
    /\ sock_timeout' = th[t].retry_interval
    /\ th' = [ th EXCEPT ![t].pc = "L74" ]
    /\ UNCHANGED << sent, recvs >>
    /\ UNCHANGED single

\* line 74 in flow t
T_L74_send(t) ==
    /\ th[t].pc = "L74"
    /\ sent' = Append(sent, query_packet)
    /\ \E o \in SendOutcomes :
          \/ /\ o = "ok"
             /\ th' = [ th EXCEPT ![t].pc = "L75" ]
          \/ /\ o = "timeout"
             /\ th[t].timeouts < MaxConcTimeouts
             /\ th' = [ th EXCEPT ![t].pc = "L77", ![t].timeouts = @ + 1 ]
          \/ /\ o = "error"
             /\ th' = [ th EXCEPT ![t].pc = "L83",
                                  ![t].ret = Raise("socket.error", NoBytes) ]
    /\ UNCHANGED << sock_timeout, recvs >>
    /\ UNCHANGED single

\* line 75 in flow t
T_L75_recv(t) ==
    /\ th[t].pc = "L75"
    /\ recvs' = recvs + 1
    /\ \E o \in RecvOutcomes :
          \/ /\ o = "data"
             /\ \E d \in Datagrams :
                   th' = [ th EXCEPT ![t].pc = "L81", ![t].p = d ]
          \/ /\ o = "timeout"
             /\ th[t].timeouts < MaxConcTimeouts
             /\ th' = [ th EXCEPT ![t].pc = "L77", ![t].timeouts = @ + 1 ]
          \/ /\ o = "error"
             /\ th' = [ th EXCEPT ![t].pc = "L83",
                                  ![t].ret = Raise("socket.error", NoBytes) ]
    /\ UNCHANGED << sock_timeout, sent >>
    /\ UNCHANGED single

\* lines 76-79 in flow t
T_L77_except(t) ==
    /\ th[t].pc = "L77"
    /\ LET r == Backoff(th[t].retry_interval) IN
       th' = [ th EXCEPT ![t].retry_interval = r,
                         ![t].pc = IF r > max_retry_interval THEN "L83" ELSE "L72",
                         ![t].ret = IF r > max_retry_interval THEN ReturnNone ELSE @ ]
    /\ UNCHANGED << sock_timeout, sent, recvs >>
    /\ UNCHANGED single

\* lines 80-81 in flow t
T_L81_return(t) ==
    /\ th[t].pc = "L81"
    /\ th' = [ th EXCEPT ![t].pc = "L83", ![t].ret = Return(th[t].p) ]
    /\ UNCHANGED << sock_timeout, sent, recvs >>
    /\ UNCHANGED single

\* the place of an exit now in the order of exits
ExitRank == 1 + Cardinality({ u \in Threads : th[u].pc = "done" })

\* mutant of T_L83_finally: the saved timeout is not put back
T_L83_finally_no_restore(t) ==
    /\ th[t].pc = "L83"
    /\ th' = [ th EXCEPT ![t].pc = "done", ![t].exit = ExitRank ]
    /\ UNCHANGED << sock_timeout, sent, recvs >>
    /\ UNCHANGED single

\* lines 82-83 in flow t: the timeout this frame saved is put back
T_L83_finally(t) ==
    /\ th[t].pc = "L83"
    /\ sock_timeout' = th[t].timeout
    /\ th' = [ th EXCEPT ![t].pc = "done", ![t].exit = ExitRank ]
    /\ UNCHANGED << sent, recvs >>
    /\ UNCHANGED single

ConcInit == Init /\ channel = "any" /\ python = 3

ConcNext ==
    \E t \in Threads :
        \/ T_get_health_report(t)
        \/ T_L72_settimeout(t)
        \/ T_L74_send(t)
        \/ T_L75_recv(t)
        \/ T_L77_except(t)
        \/ T_L81_return(t)
        \/ T_L83_finally(t)

ConcSpec == ConcInit /\ [][ConcNext]_vars

BothReturned == \A t \in Threads : th[t].pc = "done"

\* C20: when two invocations of get_health_report run on the same socket
\* and both have exited, the socket's timeout is the one the invocation that
\* exited last had saved.  It is the timeout T from before the two when they
\* did not overlap; when they did it may be a retry interval of the other
\* invocation, and the state of C20_Witness is reached.
C20_LastRestoreWins ==
    BothReturned =>
        \E t \in Threads :
            /\ th[t].exit = 2
            /\ sock_timeout = th[t].timeout
            /\ ~th[t].overlapped => sock_timeout = T0
            /\ (sock_timeout # T0) =>
                  /\ th[t].overlapped
                  /\ sock_timeout >= initial_retry_interval
                  /\ sock_timeout <= max_retry_interval

\* both have exited, the second last, and the timeout of 5 s the socket had
\* is now the first retry interval
C20_Witness ==
    /\ BothReturned
    /\ T0 = 5 * SEC
    /\ th[2].exit = 2
    /\ th[2].timeout = initial_retry_interval
    /\ sock_timeout = initial_retry_interval
    /\ Returned(th[1].ret) /\ Returned(th[2].ret)

============================================================================
